---- MODULE Spec2Model ----
(***************************************************************************)
(* Model of src/bot.py: the handle_video conversion job (validation, status *)
(* message, temp paths, get_file, download, run_ffmpeg with its child       *)
(* process and timeout, output verification, send_video_note, the status    *)
(* edits of every branch, and the cleanup of the finally block), run as     *)
(* NJobs concurrent handler invocations over one shared temp directory.     *)
(* One action is one segment of the coroutine between two awaits, or one    *)
(* step of the ffmpeg child process / of the event loop's child watcher.    *)
(***************************************************************************)
EXTENDS Integers, Sequences, FiniteSets, TLC

\* ---------------------------------------------------------------- bounds
NJobs == 2
Jobs == 1..NJobs
\* uuid.uuid4(): the values the generator can hand out
UUIDs == 1..NJobs

\* ------------------------------------------------------- configuration
VIDEO_MAX_DURATION == 90
MAX_FILE_SIZE == 20 * 1024 * 1024
\* Python None: an optional value of the Video object that is absent
NoValue == -1
\* tmp_id before line 182 ran
NoId == 0

\* --------------------------------------------------------------- inputs
MiB == 1024 * 1024
\* the media the handler is invoked with (video.duration, video.file_size)
Medias ==
  { [duration |-> 30,      file_size |-> 5 * MiB],
    [duration |-> 120,     file_size |-> 5 * MiB],
    [duration |-> 120,     file_size |-> MAX_FILE_SIZE + 1],
    [duration |-> 30,      file_size |-> MAX_FILE_SIZE + 1],
    [duration |-> NoValue, file_size |-> 21 * MiB] }
NoVideo == [duration |-> NoValue, file_size |-> NoValue]

\* ------------------------------------------------------ pure functions
\* Python truthiness of an Optional[int]: None and 0 are false
Truthy(x) == x # NoValue /\ x # 0

\* line 165: video.duration and video.duration > VIDEO_MAX_DURATION
TooLongBug(video) == Truthy(video.duration) /\ video.duration > VIDEO_MAX_DURATION + 30
TooLongAtLimit(video) == Truthy(video.duration) /\ video.duration >= VIDEO_MAX_DURATION
TooLong(video) == Truthy(video.duration) /\ video.duration > VIDEO_MAX_DURATION

\* line 172: video.file_size and video.file_size > MAX_FILE_SIZE
TooLargeBug(video) == Truthy(video.file_size) /\ video.file_size > 2 * MAX_FILE_SIZE
TooLarge(video) == Truthy(video.file_size) /\ video.file_size > MAX_FILE_SIZE

\* human_size: f"{num_bytes / 1024 / 1024:.1f} МБ", as the number of tenths
\* of a MiB that the text shows (round to nearest, ties to even: the ties
\* are multiples of 1/4 MiB, exact in binary floating point)
human_size(num_bytes) ==
  LET twice == 2 * 10 * num_bytes
      q == twice \div (2 * MiB)
      r == twice % (2 * MiB)
  IN  IF r > MiB THEN q + 1
      ELSE IF r < MiB THEN q
      ELSE IF q % 2 = 0 THEN q ELSE q + 1

\* ------------------------------------------------------ message texts
\* a text is its template (kind), the exception / reason text interpolated
\* into it (reason) and the numbers interpolated into it (a, b)
Text(kind, reason, a, b) == [kind |-> kind, reason |-> reason, a |-> a, b |-> b]
NoText == Text("none", "", 0, 0)
\* lines 166-169
TooLongText(video) == Text("TooLong", "", video.duration, VIDEO_MAX_DURATION)
\* lines 173-176
TooLargeText(video) ==
  Text("TooLarge", "", human_size(video.file_size), human_size(MAX_FILE_SIZE))
\* line 179
ProcessingText == Text("Processing", "", 0, 0)
\* lines 192-194, 198-200
GetFileRejectedText == Text("GetFileRejected", "TelegramBadRequest", 0, 0)
GetFileNetworkText == Text("GetFileNetwork", "", 0, 0)
\* lines 208-210
EmptyDownloadText == Text("EmptyDownload", "", 0, 0)
\* lines 219-221
BadOutputText == Text("BadOutput", "", 0, 0)
\* lines 236-240, 244-246, 250-252
SendRejectedText == Text("SendRejected", "TelegramBadRequest", 0, 0)
SendServerTextBug == Text("SendNetwork", "", 0, 0)
SendServerText == Text("SendServer", "", 0, 0)
SendNetworkText == Text("SendNetwork", "", 0, 0)
\* line 255
SuccessText == Text("Success", "", 0, 0)
\* lines 259-262: "(e). If it repeats, write to the bot's developer"
RuntimeErrorText(e) == Text("WriteToDeveloper", e, 0, 0)
\* lines 266-268: "Something went wrong (type(e).__name__): e"
UnexpectedText(excType) == Text("SomethingWentWrong", excType, 0, 0)


\* --------------------------------------------------------------- paths
\* line 183: TMP_DIR / f"input_{tmp_id}.mp4"
InputPath(id) == <<"input", id>>
\* line 184: TMP_DIR / f"circle_{tmp_id}.mp4"
OutputPathBug(id) == <<"circle", 1>>
OutputPath(id) == <<"circle", id>>
Paths == {"input", "circle"} \X UUIDs
\* what a path of the temp directory holds: nothing, a zero-length file, or
\* a file with bytes in it
FileStates == {"absent", "empty", "data"}

\* ------------------------------------------------ collaborator outcomes
\* exception classes of aiogram that the chat client raises
TelegramFaults == {"TelegramBadRequest", "TelegramNetworkError", "TelegramServerError"}
\* send_video_note can also be refused with a class no handler names
SendFaults == TelegramFaults \cup {"TelegramForbiddenError"}
\* the exception a failing message.answer / edit_text raises
AnswerError == "TelegramNetworkError"
EditError == "TelegramBadRequest"

\* ---------------------------------------------------------------- state
VARIABLES
  pc,         \* where each handle_video coroutine stands
  video,      \* message.video of each invocation
  answered,   \* the text each job passed to message.answer in validation
  status,     \* the text the job's status message shows (status_msg)
  pending,    \* the edit_text call the job is about to await, and where
  edits,      \* the edit_text calls made so far, with their results
  tmp_id,     \* line 182
  issued,     \* the values uuid4() has returned so far
  fs,         \* the files of TMP_DIR
  child,      \* the ffmpeg child process of each job
  returncode, \* process.returncode
  outcome,    \* how run_ffmpeg ended
  seen,       \* what the exists()/st_size checks of lines 206 and 217 saw
              \* ("OSError": the check itself raised)
  calls,      \* how often each collaborator was called (delivered: how often
              \* send_video_note returned normally), and how its call ended
              \* (_r: "" not called, "ok", or the class of the exception)
  accessed,   \* the paths each job (and its child) read, wrote or removed
  unlinked,   \* the paths the finally block went through, in order
  exc         \* the exception propagating out of the handler, "" if none

vars == <<pc, video, answered, status, pending, edits, tmp_id, issued, fs,
          child, returncode, outcome, seen, calls, accessed, unlinked, exc>>

NoPending == [text |-> NoText, ctx |-> "none"]
NoCalls == [get_file |-> 0, download |-> 0, ffmpeg |-> 0, send |-> 0, mkdir |-> 0,
            delivered |-> 0,
            get_file_r |-> "", download_r |-> "", ffmpeg_r |-> "", send_r |-> ""]
NoSeen == [input |-> "unseen", output |-> "unseen"]

Init ==
  /\ pc = [j \in Jobs |-> "idle"]
  /\ video = [j \in Jobs |-> NoVideo]
  /\ answered = [j \in Jobs |-> NoText]
  /\ status = [j \in Jobs |-> NoText]
  /\ pending = [j \in Jobs |-> NoPending]
  /\ edits = [j \in Jobs |-> <<>>]
  /\ tmp_id = [j \in Jobs |-> NoId]
  /\ issued = {}
  /\ fs = [p \in Paths |-> "absent"]
  /\ child = [j \in Jobs |-> "none"]
  /\ returncode = [j \in Jobs |-> NoValue]
  /\ outcome = [j \in Jobs |-> "none"]
  /\ seen = [j \in Jobs |-> NoSeen]
  /\ calls = [j \in Jobs |-> NoCalls]
  /\ accessed = [j \in Jobs |-> {}]
  /\ unlinked = [j \in Jobs |-> <<>>]
  /\ exc = [j \in Jobs |-> ""]

input_path(j) == InputPath(tmp_id[j])
output_path(j) == OutputPath(tmp_id[j])

\* ------------------------------------------------------------ validation
\* lines 155-163: the dispatcher invokes the handler with a video message
HandleVideo(j, m) ==
  /\ pc[j] = "idle"
  /\ pc' = [pc EXCEPT ![j] = "validate"]
  /\ video' = [video EXCEPT ![j] = m]
  /\ UNCHANGED <<answered, status, pending, edits, tmp_id, issued, fs, child,
                 returncode, outcome, seen, calls, accessed, unlinked, exc>>

\* a return or a raise before the try statement of line 186: the handler is
\* over, and a raise reaches the dispatcher
Leave(j, ok, error) ==
  /\ pc' = [pc EXCEPT ![j] = "ended"]
  /\ exc' = [exc EXCEPT ![j] = IF ok THEN "" ELSE error]

\* lines 165-170
RejectTooLong(j, ok) ==
  /\ pc[j] = "validate"
  /\ TooLong(video[j])
  /\ answered' = [answered EXCEPT ![j] = TooLongText(video[j])]
  /\ Leave(j, ok, AnswerError)
  /\ UNCHANGED <<video, status, pending, edits, tmp_id, issued, fs, child,
                 returncode, outcome, seen, calls, accessed, unlinked>>

\* lines 172-177
RejectTooLarge(j, ok) ==
  /\ pc[j] = "validate"
  /\ ~TooLong(video[j])
  /\ TooLarge(video[j])
  /\ answered' = [answered EXCEPT ![j] = TooLargeText(video[j])]
  /\ Leave(j, ok, AnswerError)
  /\ UNCHANGED <<video, status, pending, edits, tmp_id, issued, fs, child,
                 returncode, outcome, seen, calls, accessed, unlinked>>

\* line 179: status_msg = await message.answer(...)
PostStatus(j, ok) ==
  /\ pc[j] = "validate"
  /\ ~TooLong(video[j])
  /\ ~TooLarge(video[j])
  /\ IF ok
     THEN /\ status' = [status EXCEPT ![j] = ProcessingText]
          /\ pc' = [pc EXCEPT ![j] = "allocate"]
          /\ exc' = exc
     ELSE /\ status' = status
          /\ Leave(j, FALSE, AnswerError)
  /\ UNCHANGED <<video, answered, pending, edits, tmp_id, issued, fs, child,
                 returncode, outcome, seen, calls, accessed, unlinked>>

\* lines 181-184: TMP_DIR.mkdir(exist_ok=True), which can raise OSError,
\* then uuid4(), a value that was not handed out before
Allocate(j, ok, id) ==
  /\ pc[j] = "allocate"
  /\ calls' = [calls EXCEPT ![j].mkdir = @ + 1]
  /\ IF ok
     THEN /\ id \notin issued
          /\ tmp_id' = [tmp_id EXCEPT ![j] = id]
          /\ issued' = issued \cup {id}
          /\ pc' = [pc EXCEPT ![j] = "get_file"]
          /\ exc' = exc
     ELSE /\ UNCHANGED <<tmp_id, issued>>
          /\ Leave(j, FALSE, "OSError")
  /\ UNCHANGED <<video, answered, status, pending, edits, fs, child,
                 returncode, outcome, seen, accessed, unlinked>>

\* ------------------------------------------------- the try statement
\* an exception is its class and its text
Exception(type, msg) == [type |-> type, msg |-> msg]

\* lines 257-270: which except clause of the outer try takes an exception
\* raised in its body, and the edit_text that clause awaits
CatchBug(e) == [text |-> UnexpectedText(e.type), ctx |-> "generic"]
Catch(e) ==
  IF e.type = "RuntimeError"
  THEN [text |-> RuntimeErrorText(e.msg), ctx |-> "runtime"]
  ELSE [text |-> UnexpectedText(e.type), ctx |-> "generic"]

\* the body of the try raises e: control is in the except clause, at its
\* edit_text
RaiseBug(j, e) ==
  /\ pending' = pending
  /\ pc' = [pc EXCEPT ![j] = "cleanup"]
Raise(j, e) ==
  /\ pending' = [pending EXCEPT ![j] = Catch(e)]
  /\ pc' = [pc EXCEPT ![j] = "edit"]

\* a handler inside the try awaits edit_text(text) and then returns
EditAndReturn(j, text) ==
  /\ pending' = [pending EXCEPT ![j] = [text |-> text, ctx |-> "try"]]
  /\ pc' = [pc EXCEPT ![j] = "edit"]

\* ----------------------------------------------------------------- fetch
\* lines 188-201: bot.get_file
GetFile(j, r) ==
  /\ pc[j] = "get_file"
  /\ calls' = [calls EXCEPT ![j].get_file = @ + 1, ![j].get_file_r = r]
  /\ CASE r = "ok" -> /\ pc' = [pc EXCEPT ![j] = "download"]
                      /\ pending' = pending
       [] r = "TelegramBadRequest" -> EditAndReturn(j, GetFileRejectedText)
       [] r = "TelegramNetworkError" -> EditAndReturn(j, GetFileNetworkText)
       [] OTHER -> Raise(j, Exception(r, ""))
  /\ UNCHANGED <<video, answered, status, edits, tmp_id, issued, fs, child,
                 returncode, outcome, seen, accessed, unlinked, exc>>

\* lines 206 and 217: not path.exists() or path.stat().st_size == 0
UsableBug(f) == f # "absent"
UsableAny(f) == TRUE
Usable(f) == f = "data"

\* lines 203-211: bot.download into input_path (a failed download can leave
\* a partial file), then the check of the downloaded file
Download(j, r, f) ==
  /\ pc[j] = "download"
  /\ calls' = [calls EXCEPT ![j].download = @ + 1, ![j].download_r = r]
  /\ accessed' = [accessed EXCEPT ![j] = @ \cup {input_path(j)}]
  /\ fs' = [fs EXCEPT ![input_path(j)] = f]
  /\ IF r = "ok"
     THEN /\ seen' = [seen EXCEPT ![j].input = f]
          /\ IF Usable(f)
             THEN /\ pc' = [pc EXCEPT ![j] = "launch"]
                  /\ pending' = pending
             ELSE EditAndReturn(j, EmptyDownloadText)
     ELSE /\ f # "empty"
          /\ seen' = seen
          /\ Raise(j, Exception(r, ""))
  /\ UNCHANGED <<video, answered, status, edits, tmp_id, issued, child,
                 returncode, outcome, unlinked, exc>>

\* ------------------------------------------------------------ run_ffmpeg
\* lines 214-215 and 74-84: create_subprocess_exec
Launch(j, r) ==
  /\ pc[j] = "launch"
  /\ calls' = [calls EXCEPT ![j].ffmpeg = @ + 1, ![j].ffmpeg_r = r]
  /\ CASE r = "ok" ->
            /\ child' = [child EXCEPT ![j] = "running"]
            /\ pc' = [pc EXCEPT ![j] = "wait"]
            /\ UNCHANGED <<pending, outcome>>
       [] r = "FileNotFoundError" ->
            /\ outcome' = [outcome EXCEPT ![j] = "NotFound"]
            /\ Raise(j, Exception("RuntimeError", "ffmpeg not found"))
            /\ child' = child
       [] OTHER ->
            /\ Raise(j, Exception(r, ""))
            /\ UNCHANGED <<child, outcome>>
  /\ UNCHANGED <<video, answered, status, edits, tmp_id, issued, fs,
                 returncode, seen, accessed, unlinked, exc>>

\* the child process: ffmpeg -y ... output_path creates the output file and
\* then writes it; a child that was sent SIGKILL runs until the signal is
\* delivered
ChildWrite(j) ==
  /\ child[j] \in {"running", "killed"}
  /\ fs[output_path(j)] # "data"
  /\ fs' = [fs EXCEPT ![output_path(j)] = IF @ = "absent" THEN "empty" ELSE "data"]
  /\ accessed' = [accessed EXCEPT ![j] = @ \cup {output_path(j)}]
  /\ UNCHANGED <<pc, video, answered, status, pending, edits, tmp_id, issued,
                 child, returncode, outcome, seen, calls, unlinked, exc>>

\* the child process ends: by itself with an exit code, or by the signal
ChildExit(j, code) ==
  /\ child[j] \in {"running", "killed"}
  /\ child' = [child EXCEPT ![j] = "exited"]
  /\ returncode' = [returncode EXCEPT ![j] = IF child[j] = "killed" THEN -9 ELSE code]
  /\ UNCHANGED <<pc, video, answered, status, pending, edits, tmp_id, issued,
                 fs, outcome, seen, calls, accessed, unlinked, exc>>

\* the event loop's child watcher waits for the ended child
Reap(j) ==
  /\ child[j] = "exited"
  /\ child' = [child EXCEPT ![j] = "reaped"]
  /\ UNCHANGED <<pc, video, answered, status, pending, edits, tmp_id, issued,
                 fs, returncode, outcome, seen, calls, accessed, unlinked, exc>>

\* lines 87, 93-99 and 217-222: communicate() returns once the child was
\* waited for; then the exit code and the output file are checked
Communicate(j, statOk) ==
  /\ pc[j] = "wait"
  /\ child[j] = "reaped"
  /\ IF returncode[j] # 0
     THEN /\ outcome' = [outcome EXCEPT ![j] = "NonZeroExit"]
          /\ Raise(j, Exception("RuntimeError", "ffmpeg failed"))
          /\ UNCHANGED <<seen, accessed>>
     ELSE /\ outcome' = [outcome EXCEPT ![j] = "Success"]
          /\ accessed' = [accessed EXCEPT ![j] = @ \cup {output_path(j)}]
          /\ IF ~statOk
             THEN /\ Raise(j, Exception("OSError", ""))
                  /\ seen' = [seen EXCEPT ![j].output = "OSError"]
             ELSE /\ seen' = [seen EXCEPT ![j].output = fs[output_path(j)]]
                  /\ IF Usable(fs[output_path(j)])
                     THEN /\ pc' = [pc EXCEPT ![j] = "send"]
                          /\ pending' = pending
                     ELSE EditAndReturn(j, BadOutputText)
  /\ UNCHANGED <<video, answered, status, edits, tmp_id, issued, fs, child,
                 returncode, calls, unlinked, exc>>

\* line 89: process.kill() sends SIGKILL and returns; nothing waits for the
\* child afterwards
Kill(c) == IF c = "running" THEN "killed" ELSE c

\* lines 88-91: the timeout of wait_for fires before communicate() returned
TimeoutBug(j) == pc[j] = "wait" /\ FALSE /\ UNCHANGED vars
Timeout(j) ==
  /\ pc[j] = "wait"
  /\ child[j] \in {"running", "exited"}
  /\ child' = [child EXCEPT ![j] = Kill(@)]
  /\ outcome' = [outcome EXCEPT ![j] = "TimedOut"]
  /\ Raise(j, Exception("RuntimeError", "ffmpeg timeout"))
  /\ UNCHANGED <<video, answered, status, edits, tmp_id, issued, fs,
                 returncode, seen, calls, accessed, unlinked, exc>>

\* -------------------------------------------------------------- delivery
\* lines 225-255: bot.send_video_note(FSInputFile(output_path))
SendVideoNote(j, r) ==
  /\ pc[j] = "send"
  /\ accessed' = [accessed EXCEPT ![j] = @ \cup {output_path(j)}]
  /\ calls' = [calls EXCEPT ![j].send = @ + 1,
                            ![j].send_r = r,
                            ![j].delivered = IF r = "ok" THEN @ + 1 ELSE @]
  /\ CASE r = "ok" -> EditAndReturn(j, SuccessText)
       [] r = "TelegramBadRequest" -> EditAndReturn(j, SendRejectedText)
       [] r = "TelegramServerError" -> EditAndReturn(j, SendServerText)
       [] r = "TelegramNetworkError" -> EditAndReturn(j, SendNetworkText)
       [] OTHER -> Raise(j, Exception(r, ""))
  /\ UNCHANGED <<video, answered, status, edits, tmp_id, issued, fs, child,
                 returncode, outcome, seen, unlinked, exc>>

\* ---------------------------------------------------------- status edits
\* status_msg.edit_text(pending text) at lines 192, 198, 208, 219, 236, 244,
\* 250, 255 (inside the try), 259 (in except RuntimeError) and 266 (in
\* except Exception, itself wrapped in try/except Exception: pass)
\* what the handler awaits next after an edit_text that went through: every
\* edit inside the try is followed by a return (lines 195, 201, 211, 222,
\* 241, 247, 253) or by the end of the try body (255), and the except
\* clauses end after theirs: nothing, the finally block is next
AfterEditBug(p) ==
  IF p.ctx = "try" /\ p.text # SuccessText
  THEN [text |-> SuccessText, ctx |-> "try"]
  ELSE NoPending
AfterEdit(p) == NoPending

\* whether an edit_text that raises in an except clause leaves the handler:
\* the one of except RuntimeError (259) does, the one of except Exception
\* is inside try/except Exception: pass (265-270)
EscapesBug(ctx) == ctx \in {"runtime", "generic"}
Escapes(ctx) == ctx = "runtime"

EditStatus(j, ok) ==
  /\ pc[j] = "edit"
  /\ edits' = [edits EXCEPT ![j] = Append(@, [text |-> pending[j].text, ok |-> ok])]
  /\ IF ok
     THEN /\ status' = [status EXCEPT ![j] = pending[j].text]
          /\ pending' = [pending EXCEPT ![j] = AfterEdit(pending[j])]
          /\ pc' = [pc EXCEPT ![j] = IF AfterEdit(pending[j]) = NoPending
                                     THEN "cleanup" ELSE "edit"]
          /\ exc' = exc
     ELSE /\ status' = status
          /\ CASE pending[j].ctx = "try" ->
                    /\ Raise(j, Exception(EditError, ""))
                    /\ exc' = exc
               [] Escapes(pending[j].ctx) ->
                    /\ exc' = [exc EXCEPT ![j] = EditError]
                    /\ pending' = [pending EXCEPT ![j] = NoPending]
                    /\ pc' = [pc EXCEPT ![j] = "cleanup"]
               [] OTHER ->
                    /\ exc' = exc
                    /\ pending' = [pending EXCEPT ![j] = NoPending]
                    /\ pc' = [pc EXCEPT ![j] = "cleanup"]
  /\ UNCHANGED <<video, answered, tmp_id, issued, fs, child, returncode,
                 outcome, seen, calls, accessed, unlinked>>

\* --------------------------------------------------------------- cleanup
\* line 272: for path in (input_path, output_path)
CleanupPathsBug(j) == <<input_path(j)>>
CleanupPaths(j) == <<input_path(j), output_path(j)>>

\* lines 274-275: if path.exists(): path.unlink(); ok says whether the
\* unlink of an existing file goes through
Unlink(f, p, ok) == IF f[p] # "absent" /\ ok THEN [f EXCEPT ![p] = "absent"] ELSE f
\* the exception lines 274-275 raise
UnlinkError(f, p, ok) == IF f[p] # "absent" /\ ~ok THEN "OSError" ELSE ""
\* lines 277-278: except Exception: the exception is logged and does not leave
WarnBug(e) == e
Warn(e) == ""

\* lines 272-278 over the whole tuple: the files left behind
RECURSIVE RemoveAll(_, _, _)
RemoveAll(f, paths, oks) ==
  IF paths = <<>> THEN f
  ELSE RemoveAll(Unlink(f, Head(paths), Head(oks)), Tail(paths), Tail(oks))

\* lines 272-278 over the whole tuple: the exception that leaves the loop
RECURSIVE RemoveAllError(_, _, _)
RemoveAllError(f, paths, oks) ==
  IF paths = <<>> THEN ""
  ELSE IF Warn(UnlinkError(f, Head(paths), Head(oks))) # ""
       THEN Warn(UnlinkError(f, Head(paths), Head(oks)))
       ELSE RemoveAllError(Unlink(f, Head(paths), Head(oks)), Tail(paths), Tail(oks))

\* the paths the loop got to before an exception left it
RECURSIVE Visited(_, _, _)
Visited(f, paths, oks) ==
  IF paths = <<>> THEN <<>>
  ELSE IF Warn(UnlinkError(f, Head(paths), Head(oks))) # ""
       THEN <<Head(paths)>>
       ELSE <<Head(paths)>> \o Visited(Unlink(f, Head(paths), Head(oks)), Tail(paths), Tail(oks))

Range(seq) == {seq[i] : i \in DOMAIN seq}

\* lines 271-278: the finally block, after which the handler is over
Cleanup(j, oks) ==
  /\ pc[j] = "cleanup"
  /\ LET paths == CleanupPaths(j)
         use == SubSeq(oks, 1, Len(paths))
         err == RemoveAllError(fs, paths, use)
     IN  /\ fs' = RemoveAll(fs, Visited(fs, paths, use), use)
         /\ unlinked' = [unlinked EXCEPT ![j] = @ \o Visited(fs, paths, use)]
         /\ accessed' = [accessed EXCEPT ![j] = @ \cup Range(Visited(fs, paths, use))]
         /\ exc' = [exc EXCEPT ![j] = IF err # "" THEN err ELSE @]
  /\ pc' = [pc EXCEPT ![j] = "ended"]
  /\ UNCHANGED <<video, answered, status, pending, edits, tmp_id, issued,
                 child, returncode, outcome, seen, calls>>

\* --------------------------------------------------------- specification
Next ==
  \E j \in Jobs :
    \/ \E m \in Medias : HandleVideo(j, m)
    \/ \E ok \in BOOLEAN : RejectTooLong(j, ok)
    \/ \E ok \in BOOLEAN : RejectTooLarge(j, ok)
    \/ \E ok \in BOOLEAN : PostStatus(j, ok)
    \/ \E ok \in BOOLEAN, id \in UUIDs : Allocate(j, ok, id)
    \/ \E r \in {"ok"} \cup TelegramFaults : GetFile(j, r)
    \/ \E r \in {"ok"} \cup TelegramFaults, f \in FileStates : Download(j, r, f)
    \/ \E r \in {"ok", "FileNotFoundError", "PermissionError"} : Launch(j, r)
    \/ ChildWrite(j)
    \/ \E code \in {0, 1} : ChildExit(j, code)
    \/ Reap(j)
    \/ \E statOk \in BOOLEAN : Communicate(j, statOk)
    \/ Timeout(j)
    \/ \E r \in {"ok"} \cup SendFaults : SendVideoNote(j, r)
    \/ \E ok \in BOOLEAN : EditStatus(j, ok)
    \/ \E oks \in [1..2 -> BOOLEAN] : Cleanup(j, oks)

Spec == Init /\ [][Next]_vars

\* lines 155-278: the steps of the coroutine handle_video of job j, from its
\* first statement on. Every await in it is a collaborator call that returns
\* or raises, but for communicate() (87), which returns when the child was
\* waited for and which wait_for abandons when its timer fires.
Step(j) ==
  \/ \E ok \in BOOLEAN : RejectTooLong(j, ok)
  \/ \E ok \in BOOLEAN : RejectTooLarge(j, ok)
  \/ \E ok \in BOOLEAN : PostStatus(j, ok)
  \/ \E ok \in BOOLEAN, id \in UUIDs : Allocate(j, ok, id)
  \/ \E r \in {"ok"} \cup TelegramFaults : GetFile(j, r)
  \/ \E r \in {"ok"} \cup TelegramFaults, f \in FileStates : Download(j, r, f)
  \/ \E r \in {"ok", "FileNotFoundError", "PermissionError"} : Launch(j, r)
  \/ \E statOk \in BOOLEAN : Communicate(j, statOk)
  \/ Timeout(j)
  \/ \E r \in {"ok"} \cup SendFaults : SendVideoNote(j, r)
  \/ \E ok \in BOOLEAN : EditStatus(j, ok)
  \/ \E oks \in [1..2 -> BOOLEAN] : Cleanup(j, oks)

\* the jobs of the fair specification
LiveJobs == {1}

\* one job with its child process
NextLive ==
  \E j \in LiveJobs :
    \/ \E m \in Medias : HandleVideo(j, m)
    \/ Step(j)
    \/ ChildWrite(j)
    \/ \E code \in {0, 1} : ChildExit(j, code)
    \/ Reap(j)

\* The event loop runs every coroutine that can go on, the timer of wait_for
\* (87) fires, and every collaborator call returns. Nothing is assumed of
\* the child process: it need not write, exit or be waited for.
SpecLive == Init /\ [][NextLive]_vars /\ \A j \in LiveJobs : WF_vars(Step(j))

\* ------------------------------------------------- validation on its own
\* video.duration and video.file_size of the message (lines 165, 172): each
\* absent, zero, within the limit, at the limit, and over it
Durations ==
  {NoValue, 0, 30, VIDEO_MAX_DURATION, VIDEO_MAX_DURATION + 1, 120}
Sizes ==
  {NoValue, 0, 5 * MiB, MAX_FILE_SIZE, MAX_FILE_SIZE + 1, 21 * MiB}
ValidationGrid == [duration : Durations, file_size : Sizes]

\* lines 155-179: the handler up to the status message
NextValidate ==
  \E j \in Jobs :
    \/ \E m \in ValidationGrid : HandleVideo(j, m)
    \/ \E ok \in BOOLEAN : RejectTooLong(j, ok)
    \/ \E ok \in BOOLEAN : RejectTooLarge(j, ok)
    \/ \E ok \in BOOLEAN : PostStatus(j, ok)

SpecValidate == Init /\ [][NextValidate]_vars

\* ================================================================ claims
Ended(j) == pc[j] = "ended"
\* the job got past line 184: it owns a pair of paths
Allocated(j) == tmp_id[j] # NoId
Own(j) == {input_path(j), output_path(j)}
Failed(o) == o \in {"NotFound", "TimedOut", "NonZeroExit"}

\* C1: a job that allocated its path pair has, when it ends, gone through
\* the removal of the input path and of the output path exactly once each,
\* whatever branch it ended on; before it ends (and in a job that allocated
\* nothing) no removal was attempted.
C1_CleanupExactlyOnce ==
  \A j \in Jobs :
    /\ Allocated(j) /\ Ended(j) => unlinked[j] = <<input_path(j), output_path(j)>>
    /\ ~Ended(j) => unlinked[j] = <<>>
    /\ ~Allocated(j) => unlinked[j] = <<>>

\* C1 witness: one job ended with a failed edit in the except RuntimeError
\* clause after a timeout, another after a successful delivery; both went
\* through both removals.
C1_Witness ==
  \E j, k \in Jobs :
    /\ Ended(j) /\ outcome[j] = "TimedOut" /\ exc[j] # ""
    /\ unlinked[j] = <<input_path(j), output_path(j)>>
    /\ Ended(k) /\ calls[k].delivered = 1
    /\ unlinked[k] = <<input_path(k), output_path(k)>>

\* C2: send_video_note was called only if ffmpeg was launched, was waited
\* for, exited with code 0 without a timeout, and the job then saw the
\* output file present with a non-zero size.
C2_DeliverOnlyVerified ==
  \A j \in Jobs :
    calls[j].send > 0 =>
      /\ outcome[j] = "Success"
      /\ calls[j].ffmpeg = 1
      /\ child[j] = "reaped"
      /\ returncode[j] = 0
      /\ seen[j].output = "data"

\* C2 witness: one job delivered, and another one whose ffmpeg exited with 0
\* but left an empty output file ended without a delivery.
C2_Witness ==
  \E j, k \in Jobs :
    /\ calls[j].send = 1
    /\ Ended(k) /\ outcome[k] = "Success" /\ seen[k].output = "empty"
    /\ calls[k].send = 0

DurationOver(j) ==
  video[j].duration # NoValue /\ video[j].duration > VIDEO_MAX_DURATION
SizeOver(j) ==
  video[j].file_size # NoValue /\ video[j].file_size > MAX_FILE_SIZE

\* nothing beyond validation happened in job j
NothingSpent(j) ==
  /\ pc[j] \in {"validate", "ended"}
  /\ tmp_id[j] = NoId
  /\ calls[j] = NoCalls
  /\ accessed[j] = {}
  /\ child[j] = "none"
  /\ status[j] = NoText
  /\ edits[j] = <<>>

\* C3: a job whose video declares a duration over VIDEO_MAX_DURATION never
\* gets past validation (no temp directory, no paths, no get_file, download,
\* ffmpeg or delivery), and it ends having answered with the too-long text
\* that carries the declared duration and the maximum.
C3_TooLongRejected ==
  \A j \in Jobs :
    DurationOver(j) =>
      /\ NothingSpent(j)
      /\ Ended(j) => /\ answered[j].kind = "TooLong"
                     /\ answered[j].a = video[j].duration
                     /\ answered[j].b = VIDEO_MAX_DURATION

\* C3 witness: scenario B, 120 seconds against a maximum of 90.
C3_Witness ==
  \E j \in Jobs :
    /\ Ended(j) /\ exc[j] = ""
    /\ video[j].duration = 120
    /\ answered[j].kind = "TooLong" /\ answered[j].a = 120 /\ answered[j].b = 90

\* the text shows n bytes as t tenths of a MiB, to the nearest tenth
ShownAs(t, n) ==
  LET d == 20 * n - 2 * t * MiB IN d <= MiB /\ -d <= MiB

\* C4: a job whose video declares a size over MAX_FILE_SIZE, with a duration
\* absent or within the limit, never gets past validation, and it ends
\* having answered with the too-large text that carries the declared size
\* and the maximum size (both in MiB to one decimal).
C4_TooLargeRejected ==
  \A j \in Jobs :
    SizeOver(j) /\ ~DurationOver(j) =>
      /\ NothingSpent(j)
      /\ Ended(j) => /\ answered[j].kind = "TooLarge"
                     /\ ShownAs(answered[j].a, video[j].file_size)
                     /\ ShownAs(answered[j].b, MAX_FILE_SIZE)

\* C4 witness: 21 MiB with no declared duration, shown as 21.0 against 20.0.
C4_Witness ==
  \E j \in Jobs :
    /\ Ended(j) /\ exc[j] = ""
    /\ video[j].duration = NoValue /\ video[j].file_size = 21 * MiB
    /\ answered[j].kind = "TooLarge" /\ answered[j].a = 210 /\ answered[j].b = 200

\* C5: a job whose ffmpeg timed out has, when it has ended, a child process
\* that is terminated and waited for.
C5_ChildGoneAtEnd ==
  \A j \in Jobs :
    Ended(j) /\ outcome[j] = "TimedOut" => child[j] = "reaped"


FinalText(t) == t.kind \notin {"none", "Processing"}
SomeEditOk(j) == \E i \in DOMAIN edits[j] : edits[j][i].ok
\* the text of the last edit_text call that went through
LastOkText(j) ==
  LET i == CHOOSE n \in DOMAIN edits[j] :
             edits[j][n].ok /\ \A m \in DOMAIN edits[j] : edits[j][m].ok => m <= n
  IN  edits[j][i].text

\* C6 as stated, for the jobs that posted the status message and went on to
\* allocate their paths: no such job ends with the message still showing the
\* initial processing text.
C6_NeverStuckOnProcessing ==
  \A j \in Jobs : Ended(j) /\ Allocated(j) => status[j] # ProcessingText

\* C6 as amended: a job that posted the status message and allocated its
\* paths has, when it ends, attempted at least one edit of the message, every
\* attempted edit carried a final-outcome text, and the message shows the
\* text of the last edit that went through; it still shows the processing
\* text exactly when every attempted edit failed.
C6_EditAttempted ==
  \A j \in Jobs :
    Ended(j) /\ Allocated(j) =>
      /\ Len(edits[j]) >= 1
      /\ \A i \in DOMAIN edits[j] : FinalText(edits[j][i].text)
      /\ SomeEditOk(j) => status[j] = LastOkText(j) /\ FinalText(status[j])
      /\ ~SomeEditOk(j) => status[j] = ProcessingText

\* C6 witness: one job ended with its status message edited to the success
\* text, another one ended after both of its edits failed.
C6_Witness ==
  \E j, k \in Jobs :
    /\ Ended(j) /\ status[j] = SuccessText
    /\ Ended(k) /\ Len(edits[k]) = 2 /\ ~SomeEditOk(k)
    /\ status[k] = ProcessingText

\* C7: no exception leaves handle_video.
C7_NothingEscapes ==
  \A j \in Jobs : exc[j] = ""

\* C8: the paths of distinct jobs (running or ended) are pairwise different,
\* each job, its ffmpeg child and its cleanup touched only the job's own two
\* paths, and every file in the temp directory is a file of exactly the job
\* that created it.
C8_PathsIsolated ==
  /\ \A j \in Jobs : Allocated(j) => input_path(j) # output_path(j)
  /\ \A j, k \in Jobs : j # k /\ Allocated(j) /\ Allocated(k) => Own(j) \cap Own(k) = {}
  /\ \A j \in Jobs : accessed[j] \subseteq (IF Allocated(j) THEN Own(j) ELSE {})
  /\ \A j, k \in Jobs : j # k => accessed[j] \cap accessed[k] = {}
  /\ \A p \in Paths : fs[p] # "absent" => \E j \in Jobs : p \in accessed[j]

\* C8 witness: two jobs in flight at once, each with its own downloaded
\* input and its own ffmpeg output on disk, and one of them delivering.
C8_Witness ==
  \E j, k \in Jobs :
    /\ j # k
    /\ pc[j] = "edit" /\ calls[j].delivered = 1
    /\ pc[k] = "wait"
    /\ fs[input_path(j)] = "data" /\ fs[output_path(j)] = "data"
    /\ fs[input_path(k)] = "data" /\ fs[output_path(k)] = "data"

\* the message the spec gives each failed run of the tool
SpecKind(o) ==
  CASE o = "NotFound" -> "WriteToDeveloper"
    [] o = "TimedOut" -> "TryShorterClip"
    [] o = "NonZeroExit" -> "TryAnotherClip"
\* the reason run_ffmpeg gives for each
Reason(o) ==
  CASE o = "NotFound" -> "ffmpeg not found"
    [] o = "TimedOut" -> "ffmpeg timeout"
    [] o = "NonZeroExit" -> "ffmpeg failed"

C10_CleanupTotal ==
  [][\A j \in Jobs :
       pc[j] = "cleanup" /\ pc'[j] = "ended" =>
         /\ exc'[j] = exc[j]
         /\ status'[j] = status[j] /\ edits'[j] = edits[j]
         /\ outcome'[j] = outcome[j] /\ calls'[j] = calls[j]
         /\ \A p \in Paths \ Own(j) : fs'[p] = fs[p]
         /\ \A p \in Own(j) : fs'[p] \in {"absent", fs[p]}
         /\ \E oks \in [1..2 -> BOOLEAN] :
              /\ fs' = RemoveAll(fs, <<input_path(j), output_path(j)>>, oks)
              /\ RemoveAll(fs', <<input_path(j), output_path(j)>>, oks) = fs'
    ]_vars

\* C10 witness: a job ended without an exception although its output was
\* never created and its input could not be removed, while another job in
\* flight still has its input and output on disk.
C10_Witness ==
  \E j, k \in Jobs :
    /\ j # k
    /\ Ended(j) /\ exc[j] = "" /\ calls[j].ffmpeg = 0
    /\ unlinked[j] = <<input_path(j), output_path(j)>>
    /\ fs[input_path(j)] = "data" /\ fs[output_path(j)] = "absent"
    /\ pc[k] = "send"
    /\ fs[input_path(k)] = "data" /\ fs[output_path(k)] = "data"

\* the order of the steps of one job: from each position, the next ones
StepOrder ==
  { <<"idle", "validate">>, <<"validate", "allocate">>, <<"validate", "ended">>,
    <<"allocate", "get_file">>, <<"allocate", "ended">>,
    <<"get_file", "download">>, <<"get_file", "edit">>,
    <<"download", "launch">>, <<"download", "edit">>,
    <<"launch", "wait">>, <<"launch", "edit">>,
    <<"wait", "send">>, <<"wait", "edit">>,
    <<"send", "edit">>, <<"edit", "cleanup">>, <<"cleanup", "ended">> }

\* each step of job j was taken at most once, and only after all the steps
\* before it had gone through
InOrder(j) ==
  /\ calls[j].mkdir <= 1 /\ calls[j].get_file <= 1 /\ calls[j].download <= 1
  /\ calls[j].ffmpeg <= 1 /\ calls[j].send <= 1
  /\ calls[j].mkdir = 1 => status[j] # NoText /\ ~TooLong(video[j]) /\ ~TooLarge(video[j])
  /\ Allocated(j) => calls[j].mkdir = 1
  /\ calls[j].get_file = 1 => Allocated(j)
  /\ calls[j].download = 1 => calls[j].get_file_r = "ok"
  /\ seen[j].input # "unseen" => calls[j].download_r = "ok"
  /\ calls[j].ffmpeg = 1 => seen[j].input = "data"
  /\ seen[j].output # "unseen" => calls[j].ffmpeg_r = "ok" /\ outcome[j] = "Success"
  /\ calls[j].send = 1 => seen[j].output = "data"
  /\ (\E i \in DOMAIN edits[j] : edits[j][i].text = SuccessText) => calls[j].send_r = "ok"
  /\ pc[j] = "edit" /\ pending[j].text = SuccessText => calls[j].send_r = "ok"
  /\ unlinked[j] # <<>> => Ended(j)

\* C11: within one job the steps come in the order validate, post status,
\* allocate, get_file, download, check input, launch ffmpeg, check output,
\* deliver, success edit, with the cleanup last on every branch; a step is
\* only taken after the ones before it went through, and get_file, download,
\* the ffmpeg launch and send_video_note happen at most once per job.
C11_StepsInOrder ==
  /\ [](\A j \in Jobs : InOrder(j))
  /\ [][\A j \in Jobs :
          /\ pc'[j] # pc[j] => <<pc[j], pc'[j]>> \in StepOrder
          /\ calls'[j].get_file # calls[j].get_file => pc[j] = "get_file"
          /\ calls'[j].download # calls[j].download => pc[j] = "download"
          /\ calls'[j].ffmpeg # calls[j].ffmpeg => pc[j] = "launch"
          /\ calls'[j].send # calls[j].send => pc[j] = "send"
          /\ unlinked'[j] # unlinked[j] => pc[j] = "cleanup"
     ]_vars

\* C11 witness: scenario A, a 30 second 5 MiB video that went through every
\* step once, ends on the success text and leaves no temp file.
C11_Witness ==
  \E j \in Jobs :
    /\ Ended(j) /\ video[j] = [duration |-> 30, file_size |-> 5 * MiB]
    /\ calls[j].get_file = 1 /\ calls[j].download = 1 /\ calls[j].ffmpeg = 1
    /\ calls[j].send = 1 /\ calls[j].delivered = 1
    /\ status[j] = SuccessText
    /\ fs[input_path(j)] = "absent" /\ fs[output_path(j)] = "absent"

\* the exception class the fetch step (get_file, then download) raised
FetchFault(j) ==
  IF calls[j].get_file_r \notin {"", "ok"} THEN calls[j].get_file_r
  ELSE IF calls[j].download_r \notin {"", "ok"} THEN calls[j].download_r
  ELSE ""

\* C12: a request-rejected fault and a transport fault raised by get_file or
\* by download each lead to the edit of the status message to the text of
\* their own category (not the generic something-went-wrong notice); ffmpeg
\* is never launched and the cleanup runs.
C12_FetchFaultTexts ==
  \A j \in Jobs :
    FetchFault(j) \in {"TelegramBadRequest", "TelegramNetworkError"}
    /\ pc[j] \in {"cleanup", "ended"} =>
      /\ edits[j][1].text =
           (IF FetchFault(j) = "TelegramBadRequest"
            THEN GetFileRejectedText ELSE GetFileNetworkText)
      /\ calls[j].ffmpeg = 0
      /\ Ended(j) => unlinked[j] = <<input_path(j), output_path(j)>>

\* C13: a download that returned normally but left input_path missing or
\* zero-length is a fetch failure: the job goes on to edit the status message
\* to the empty-download text, ffmpeg is never launched, nothing is delivered
\* and the cleanup runs.
C13_EmptyInputIsFetchFailure ==
  \A j \in Jobs :
    seen[j].input \in {"absent", "empty"} =>
      /\ calls[j].download_r = "ok"
      /\ calls[j].ffmpeg = 0 /\ calls[j].send = 0 /\ child[j] = "none"
      /\ pc[j] \in {"edit", "cleanup", "ended"}
      /\ IF edits[j] = <<>>
         THEN pc[j] = "edit" /\ pending[j] = [text |-> EmptyDownloadText, ctx |-> "try"]
         ELSE /\ edits[j][1].text = EmptyDownloadText
              /\ edits[j][1].ok => status[j] = EmptyDownloadText
      /\ Ended(j) => unlinked[j] = <<input_path(j), output_path(j)>>

\* C13 witness: a job ended on the empty-download text after a download that
\* returned normally and left a zero-length file.
C13_Witness ==
  \E j \in Jobs :
    /\ Ended(j) /\ calls[j].download_r = "ok" /\ seen[j].input = "empty"
    /\ status[j] = EmptyDownloadText /\ calls[j].ffmpeg = 0
    /\ unlinked[j] = <<input_path(j), output_path(j)>>

\* the text of each category of send_video_note failure
SendText(r) ==
  CASE r = "TelegramBadRequest" -> Text("SendRejected", "TelegramBadRequest", 0, 0)
    [] r = "TelegramServerError" -> Text("SendServer", "", 0, 0)
    [] r = "TelegramNetworkError" -> Text("SendNetwork", "", 0, 0)

\* C14: a send_video_note that fails as request-rejected, as a server fault
\* or as a transport fault leads to the edit of the status message to the
\* text of that category, three different texts; the success text is never
\* attempted or shown, and the cleanup runs.
C14_SendFaultTexts ==
  /\ \A r1, r2 \in TelegramFaults : r1 # r2 => SendText(r1) # SendText(r2)
  /\ \A j \in Jobs :
       calls[j].send_r \in TelegramFaults =>
         /\ pc[j] \in {"edit", "cleanup", "ended"}
         /\ IF edits[j] = <<>>
            THEN pc[j] = "edit" /\ pending[j].text = SendText(calls[j].send_r)
            ELSE /\ edits[j][1].text = SendText(calls[j].send_r)
                 /\ edits[j][1].ok => status[j] = SendText(calls[j].send_r)
         /\ \A i \in DOMAIN edits[j] : edits[j][i].text # SuccessText
         /\ status[j] # SuccessText /\ pending[j].text # SuccessText
         /\ Ended(j) => unlinked[j] = <<input_path(j), output_path(j)>>

\* C14 witness: one job ended on the server-fault text, another one on the
\* transport-fault text.
C14_Witness ==
  \E j, k \in Jobs :
    /\ Ended(j) /\ calls[j].send_r = "TelegramServerError"
    /\ status[j] = Text("SendServer", "", 0, 0)
    /\ Ended(k) /\ calls[k].send_r = "TelegramNetworkError"
    /\ status[k] = Text("SendNetwork", "", 0, 0)
    /\ unlinked[j] # <<>> /\ unlinked[k] # <<>>

\* C15 as stated: a job ends with its status message showing the success
\* text if and only if send_video_note went through.
C15_SuccessIffDelivered ==
  \A j \in Jobs :
    Ended(j) => (status[j] = SuccessText <=> calls[j].delivered = 1)

\* C15 as amended: the success text is attempted and shown only in a job
\* whose send_video_note went through; such a job edits the status message
\* to the success text first, and ends showing it exactly when that edit
\* went through.
C15_SuccessOnlyIfDelivered ==
  \A j \in Jobs :
    /\ status[j] = SuccessText \/ pending[j].text = SuccessText
       \/ (\E i \in DOMAIN edits[j] : edits[j][i].text = SuccessText)
         => calls[j].delivered = 1
    /\ calls[j].delivered = 1 =>
         /\ IF edits[j] = <<>>
            THEN pc[j] = "edit" /\ pending[j].text = SuccessText
            ELSE edits[j][1].text = SuccessText
         /\ Ended(j) => (status[j] = SuccessText <=> edits[j][1].ok)

\* C15 witness: one job delivered and ended on the success text, another one
\* delivered, failed to edit to the success text and ended on the generic
\* notice.
C15_Witness ==
  \E j, k \in Jobs :
    /\ Ended(j) /\ calls[j].delivered = 1 /\ status[j] = SuccessText
    /\ Ended(k) /\ calls[k].delivered = 1 /\ ~edits[k][1].ok
    /\ status[k] = UnexpectedText(EditError)

\* the class of the exception, raised by a call of job j in the try body,
\* that no except clause but except Exception takes ("" if there was none)
Unanticipated(j) ==
  CASE calls[j].get_file_r = "TelegramServerError" -> "TelegramServerError"
    [] calls[j].download_r \in TelegramFaults -> calls[j].download_r
    [] calls[j].ffmpeg_r = "PermissionError" -> "PermissionError"
    [] seen[j].output = "OSError" -> "OSError"
    [] calls[j].send_r = "TelegramForbiddenError" -> "TelegramForbiddenError"
    [] OTHER -> ""
GenericEdits(j) ==
  {i \in DOMAIN edits[j] : edits[j][i].text.kind = "SomethingWentWrong"}

\* C16: after a fault that only except Exception takes (a server fault of
\* get_file, any fault of download, a fault of the ffmpeg launch other than
\* a missing binary, a fault of the output check, an unforeseen fault of
\* send_video_note) the job makes exactly one edit_text call, to the generic
\* notice naming that fault; whether or not that edit goes through, no
\* exception leaves the handler and the cleanup runs. No job edits to the
\* generic notice more than once.
C16_GenericNoticeOnce ==
  \A j \in Jobs :
    /\ Cardinality(GenericEdits(j)) <= 1
    /\ Unanticipated(j) # "" =>
         /\ pc[j] \in {"edit", "cleanup", "ended"}
         /\ IF pc[j] = "edit"
            THEN /\ edits[j] = <<>>
                 /\ pending[j] = [text |-> UnexpectedText(Unanticipated(j)),
                                  ctx |-> "generic"]
            ELSE /\ Len(edits[j]) = 1
                 /\ edits[j][1].text = UnexpectedText(Unanticipated(j))
                 /\ edits[j][1].ok => status[j] = edits[j][1].text
         /\ exc[j] = ""
         /\ Ended(j) => unlinked[j] = <<input_path(j), output_path(j)>>

\* C16 witness: a job ended without an exception after a server fault of
\* get_file and a failed edit to the generic notice, another one after a
\* fault of the output check.
C16_Witness ==
  \E j, k \in Jobs :
    /\ Ended(j) /\ calls[j].get_file_r = "TelegramServerError"
    /\ Len(edits[j]) = 1 /\ ~edits[j][1].ok /\ exc[j] = ""
    /\ unlinked[j] = <<input_path(j), output_path(j)>>
    /\ Ended(k) /\ seen[k].output = "OSError"
    /\ status[k] = UnexpectedText("OSError")

\* C17: under SpecLive a job that waits for its child leaves the wait, with
\* TimedOut unless the child ended by itself, and every job that started
\* reaches the end of the handler.
C17_JobsTerminate ==
  \A j \in LiveJobs :
    /\ (pc[j] = "wait") ~> (outcome[j] = "TimedOut" \/ child[j] # "running")
    /\ (pc[j] # "idle") ~> Ended(j)

\* C17 witness: a job ended after a timeout although its child never exited.
C17_Witness ==
  \E j \in LiveJobs :
    /\ Ended(j) /\ outcome[j] = "TimedOut" /\ child[j] = "killed"
    /\ unlinked[j] = <<input_path(j), output_path(j)>>
    /\ Len(edits[j]) = 1

\* C18, its "stay absent" clause: once a job whose transcode timed out has
\* ended, a path of the job that is absent stays absent, and nothing is
\* delivered for the job.
C18_PathsStayAbsent ==
  [][\A j \in Jobs :
       Ended(j) /\ outcome[j] = "TimedOut" =>
         /\ calls'[j].delivered = 0
         /\ \A p \in Own(j) : fs[p] = "absent" => fs'[p] = "absent"]_vars

\* the verdict a job past validation got: the rejection it answered with,
\* or pass
Verdict(j) ==
  IF answered[j].kind \in {"TooLong", "TooLarge"} THEN answered[j].kind ELSE "pass"
\* the verdict of the reference table; a value is present when it is not None
Reference(m) ==
  IF m.duration # NoValue /\ m.duration > VIDEO_MAX_DURATION THEN "TooLong"
  ELSE IF m.file_size # NoValue /\ m.file_size > MAX_FILE_SIZE THEN "TooLarge"
  ELSE "pass"

\* C19: for every duration and size (absent, within, at, over the limit) the
\* verdict of a job past validation is the one of the reference table:
\* TooLong if the duration is present and over the limit, else TooLarge if
\* the size is present and over the limit, else pass; a pass goes on to the
\* status message, a rejection ends the job with nothing else done. An
\* absent value rejects nothing and a value at the limit passes.
C19_VerdictIsReference ==
  \A j \in Jobs :
    pc[j] \notin {"idle", "validate"} =>
      /\ Verdict(j) = Reference(video[j])
      /\ Verdict(j) = "pass" =>
           \/ pc[j] = "allocate" /\ status[j] = ProcessingText
           \/ Ended(j) /\ exc[j] = AnswerError /\ status[j] = NoText
      /\ Verdict(j) = "TooLong" => video[j].duration \notin {NoValue, VIDEO_MAX_DURATION}
      /\ Verdict(j) = "TooLarge" => video[j].file_size \notin {NoValue, MAX_FILE_SIZE}
      /\ Verdict(j) # "pass" => pc[j] = "ended" /\ status[j] = NoText

\* C19 witness: a job with both values at the limit passed, and a job with
\* both values over the limit was rejected as too long.
C19_Witness ==
  \E j, k \in Jobs :
    /\ video[j] = [duration |-> VIDEO_MAX_DURATION, file_size |-> MAX_FILE_SIZE]
    /\ pc[j] = "allocate" /\ status[j] = ProcessingText
    /\ video[k] = [duration |-> VIDEO_MAX_DURATION + 1, file_size |-> MAX_FILE_SIZE + 1]
    /\ Ended(k) /\ Verdict(k) = "TooLong"

OkEdits(j) == {i \in DOMAIN edits[j] : edits[j][i].ok}

\* C20: a job's status message is edited with success at most once: the
\* edit that went through is the job's last edit, the finally block is next
\* after it, and the message keeps showing its text; a message that was not
\* edited with success shows the processing text or was never posted.
C20_OneSuccessfulEdit ==
  \A j \in Jobs :
    /\ Cardinality(OkEdits(j)) <= 1
    /\ \A i \in OkEdits(j) :
         /\ i = Len(edits[j])
         /\ pc[j] \in {"cleanup", "ended"}
         /\ status[j] = edits[j][i].text
    /\ OkEdits(j) = {} => status[j] \in {NoText, ProcessingText}

\* C20 witness: a job ended whose edit to a failure text inside the try
\* failed and whose edit to the generic notice went through, next to a job
\* that ended on the success text.
C20_Witness ==
  \E j, k \in Jobs :
    /\ Ended(j) /\ Len(edits[j]) = 2
    /\ edits[j][1].text = SendRejectedText /\ ~edits[j][1].ok /\ edits[j][2].ok
    /\ status[j] = UnexpectedText(EditError)
    /\ Ended(k) /\ edits[k] = <<[text |-> SuccessText, ok |-> TRUE]>>

====
